---- MODULE Spec2Model ----
(***************************************************************************)
(* Route optimizer of PragatiDhara (backend/app/services/route_optimizer). *)
(*                                                                         *)
(* Units.  The source works on Python floats; the model keeps every        *)
(* quantity as an exact integer:                                           *)
(*   alpha                 thousandths      (0.1 -> 100, 2.0 -> 2000)      *)
(*   emissions_multiplier  hundredths       (0.05 -> 5, 1.0 -> 100)        *)
(*   traffic_factor        hundredths       (1.0 -> 100)                   *)
(*   time, distance        minutes, km      (integers in the source data)  *)
(*   emissions             grams            (time * 100 * multiplier)      *)
(*   f_score               thousandths      (1000 * g + alpha * emissions) *)
(*   processing_time_ms    tenths of a ms   (0.5 -> 5, 25.0 -> 250)        *)
(***************************************************************************)
EXTENDS Integers, Sequences, FiniteSets, TLC

(***************************************************************************)
(* Graph data                                                              *)
(***************************************************************************)

\* RouteLink(from_node, to_node, distance, time, eco_priority,
\*           emissions_multiplier, traffic_factor) with the dataclass defaults.
RouteLink(from, to, distance, time, eco, mult) ==
    [from_node |-> from, to_node |-> to, distance |-> distance, time |-> time,
     eco_priority |-> eco, emissions_multiplier |-> mult, traffic_factor |-> 100]

\* _load_pune_nodes: the ten known location ids.
load_pune_nodes == {"A", "B", "C", "D", "E", "F", "G", "H", "I", "J"}

\* base_links of _load_pune_links, in source order.
base_links ==
    << RouteLink("A", "B", 10, 5, FALSE, 100),
       RouteLink("A", "C", 12, 6, FALSE, 100),
       RouteLink("B", "D", 10, 5, FALSE, 100),
       RouteLink("C", "D", 8, 4, FALSE, 100),
       RouteLink("D", "E", 5, 2, FALSE, 100),
       RouteLink("E", "J", 10, 5, FALSE, 100),
       RouteLink("I", "J", 8, 4, FALSE, 100),
       RouteLink("C", "F", 8, 4, TRUE, 50),
       RouteLink("F", "H", 15, 7, TRUE, 5),
       RouteLink("E", "I", 10, 5, TRUE, 40),
       RouteLink("G", "D", 12, 5, TRUE, 70),
       RouteLink("D", "G", 7, 3, FALSE, 100),
       RouteLink("G", "H", 5, 2, FALSE, 100),
       RouteLink("H", "I", 8, 4, FALSE, 100),
       RouteLink("D", "F", 12, 6, FALSE, 100),
       RouteLink("B", "E", 14, 7, FALSE, 100) >>

\* The reverse link built in the loop of _load_pune_links.
ReverseLink(link) ==
    RouteLink(link.to_node, link.from_node, link.distance, link.time,
              link.eco_priority, link.emissions_multiplier)

\* _load_pune_links: every base link followed by its reverse.
load_pune_links ==
    [i \in 1..(2 * Len(base_links)) |->
        IF i % 2 = 1 THEN base_links[(i + 1) \div 2]
                     ELSE ReverseLink(base_links[i \div 2])]

\* The four-location example graph of the specification's test scenario
\* (A->B, B->D time 5 multiplier 1.0; A->C, C->D time 8 multiplier 0.1).
example_nodes == {"A", "B", "C", "D"}

example_links ==
    << RouteLink("A", "B", 5, 5, FALSE, 100),
       RouteLink("B", "D", 5, 5, FALSE, 100),
       RouteLink("A", "C", 8, 8, FALSE, 10),
       RouteLink("C", "D", 8, 8, FALSE, 10) >>

\* The graph the service loads in __init__ (lines 179-180).
PuneGraph == [name |-> "pune", nodes |-> load_pune_nodes, links |-> load_pune_links]

ExampleGraph == [name |-> "example", nodes |-> example_nodes, links |-> example_links]

\* A graph with two routes of equal time and emissions from A to D, so that
\* frontier entries tie on f_score.
tie_links ==
    << RouteLink("A", "B", 5, 5, FALSE, 100),
       RouteLink("A", "C", 5, 5, FALSE, 100),
       RouteLink("B", "D", 5, 5, FALSE, 100),
       RouteLink("C", "D", 5, 5, FALSE, 100) >>

TieGraph == [name |-> "tie", nodes |-> example_nodes, links |-> tie_links]

\* A graph with a slow low-emission direct link D -> A beside the fast
\* two-hop route D -> B -> A.
shortcut_nodes == {"A", "B", "D"}

shortcut_links ==
    << RouteLink("D", "B", 1, 1, FALSE, 100),
       RouteLink("B", "A", 1, 1, FALSE, 100),
       RouteLink("D", "A", 8, 8, FALSE, 10) >>

ShortcutGraph == [name |-> "shortcut", nodes |-> shortcut_nodes, links |-> shortcut_links]

\* A graph on which the fast route A -> D scores 70 and the eco route
\* A -> B -> C -> D scores 50, so that the two tie once the eco bonus is added.
level_links ==
    << RouteLink("A", "B", 200, 200, FALSE, 5),
       RouteLink("A", "D", 50, 50, FALSE, 50),
       RouteLink("B", "C", 150, 150, FALSE, 5),
       RouteLink("C", "D", 50, 50, FALSE, 5) >>

LevelGraph == [name |-> "level", nodes |-> example_nodes, links |-> level_links]

\* The graphs a pathfinder is constructed with: AStarPathfinder(nodes, links).
Graphs == {PuneGraph, ExampleGraph, TieGraph, ShortcutGraph, LevelGraph}

GraphNames == { g.name : g \in Graphs }

GraphNamed(name) == CHOOSE g \in Graphs : g.name = name

\* A location id no graph knows.
UnknownLocation == "Z"

\* Python's order on the location ids (str comparison of one-letter ids).
NodeOrder == <<"A", "B", "C", "D", "E", "F", "G", "H", "I", "J", "Z">>

Ord(n) == CHOOSE i \in 1..Len(NodeOrder) : NodeOrder[i] = n

(***************************************************************************)
(* AStarPathfinder                                                         *)
(***************************************************************************)

\* _build_graph / self.graph[node]: the links leaving node, in link order.
build_graph(links, node) ==
    SelectSeq(links, LAMBDA l : l.from_node = node)

\* _find_link: the FIRST link from_node -> to_node of the adjacency list,
\* as a sequence of length 0 (None) or 1.
find_link(links, from, to) ==
    LET out == SelectSeq(build_graph(links, from), LAMBDA l : l.to_node = to)
    IN  IF out = <<>> THEN <<>> ELSE <<out[1]>>

\* An emissions cost that leaves the link's multiplier out.
calculate_emissions_cost_no_multiplier(link) ==
    link.time * 100

\* _calculate_emissions_cost: link.time * 100 * emissions_multiplier (grams).
calculate_emissions_cost(link) ==
    (link.time * 100 * link.emissions_multiplier) \div 100

\* _heuristic: the constant zero estimate.
heuristic(node, goal) == 0

\* link.time * link.traffic_factor, the increment of g_score (minutes).
TimeCost(link) == (link.time * link.traffic_factor) \div 100

RECURSIVE route_metrics_from(_, _, _)
route_metrics_from(links, path, i) ==
    IF i >= Len(path) THEN [distance |-> 0, emissions |-> 0]
    ELSE LET rest == route_metrics_from(links, path, i + 1)
             link == find_link(links, path[i], path[i + 1])
         IN  IF link = <<>> THEN rest
             ELSE [distance |-> rest.distance + link[1].distance,
                   emissions |-> rest.emissions
                                 + (link[1].time * 100 * link[1].emissions_multiplier) \div 100]

\* _calculate_route_metrics: (total_distance, total_emissions) of a path,
\* looked up hop by hop with _find_link.
calculate_route_metrics(links, path) == route_metrics_from(links, path, 1)

Min(a, b) == IF a <= b THEN a ELSE b
Max(a, b) == IF a >= b THEN a ELSE b

\* Green points with the penalty taken on raw grams and no clamping.
calculate_green_points_unclamped(emissions, time) ==
    100 - emissions - time \div 10

\* _calculate_green_points: max(0, int(100 - min(50, e/100) - min(30, t/10))),
\* computed in hundredths of a point and truncated by int().
calculate_green_points(emissions, time) ==
    LET hundredths == 100 * 100 - Min(50 * 100, emissions) - Min(30 * 100, 10 * time)
        truncated  == IF hundredths >= 0 THEN hundredths \div 100
                                         ELSE -((-hundredths) \div 100)
    IN  Max(0, truncated)

(***************************************************************************)
(* find_path: the frontier is a heap of tuples (f_score, g_score, node,    *)
(* path).  heappop returns a least tuple under Python's tuple order.       *)
(***************************************************************************)

\* Python's list order on two paths (sequences of location ids).
RECURSIVE PathLess(_, _)
PathLess(p, q) ==
    IF q = <<>> THEN FALSE
    ELSE IF p = <<>> THEN TRUE
    ELSE IF p[1] # q[1] THEN Ord(p[1]) < Ord(q[1])
    ELSE PathLess(Tail(p), Tail(q))

\* A frontier order that looks at f_score alone (ties left open).
HeapLessByFOnly(a, b) == a.f < b.f

\* The reverse of the tuple order (a max-heap).
HeapLessReversed(a, b) ==
    \/ b.f < a.f
    \/ a.f = b.f /\ b.g < a.g
    \/ a.f = b.f /\ a.g = b.g /\ Ord(b.node) < Ord(a.node)
    \/ a.f = b.f /\ a.g = b.g /\ a.node = b.node /\ PathLess(b.path, a.path)

\* Python's tuple order on (f_score, g_score, node, path).
HeapLess(a, b) ==
    \/ a.f < b.f
    \/ a.f = b.f /\ a.g < b.g
    \/ a.f = b.f /\ a.g = b.g /\ Ord(a.node) < Ord(b.node)
    \/ a.f = b.f /\ a.g = b.g /\ a.node = b.node /\ PathLess(a.path, b.path)

\* heappop: the positions of the frontier holding a least entry.
heappop(open_set) ==
    { i \in 1..Len(open_set) :
        \A j \in 1..Len(open_set) : ~HeapLess(open_set[j], open_set[i]) }

RemoveAt(s, i) == SubSeq(s, 1, i - 1) \o SubSeq(s, i + 1, Len(s))

\* The wall-clock measurements (time.time() differences) a computation can
\* record in processing_time_ms, in tenths of a millisecond.
ElapsedMs == {1, 12}

\* The entries pushed while expanding `cur` (lines 109-122): one per outgoing
\* link whose target is not closed, in adjacency order.
Expand(links, end, alpha, cur, closed_set) ==
    LET out  == SelectSeq(build_graph(links, cur.node),
                          LAMBDA l : l.to_node \notin closed_set)
    IN  [k \in 1..Len(out) |->
            LET link  == out[k]
                new_g == cur.g + TimeCost(link)
            IN  [f    |-> 1000 * new_g + 1000 * heuristic(link.to_node, end)
                          + alpha * calculate_emissions_cost(link),
                 g    |-> new_g,
                 node |-> link.to_node,
                 path |-> Append(cur.path, link.to_node)]]

\* The RouteResult built at lines 88-101 when `end` is popped.
FoundRoute(links, cur, elapsed) ==
    LET m == calculate_route_metrics(links, cur.path)
    IN  [path |-> cur.path,
         total_time |-> cur.g,
         total_distance |-> m.distance,
         total_emissions |-> m.emissions,
         green_points_score |-> calculate_green_points(m.emissions, cur.g),
         route_type |-> "optimal",
         processing_time_ms |-> elapsed,
         cache_hit |-> FALSE]

\* An iteration of the while loop that goes on to expand a location it has
\* already closed (the test of lines 103-104 left out).
search_step_closed_not_skipped(links, end, alpha, open_set, closed_set) ==
    UNION {
        LET cur  == open_set[i]
            rest == RemoveAt(open_set, i)
        IN  IF cur.node = end
              THEN { [kind |-> "return", node |-> cur.node,
                      result |-> <<FoundRoute(links, cur, t)>>,
                      open_set |-> rest, closed_set |-> closed_set] : t \in ElapsedMs }
            ELSE { [kind |-> "expand", node |-> cur.node, result |-> <<>>,
                    open_set |-> rest \o Expand(links, end, alpha, cur,
                                                closed_set \cup {cur.node}),
                    closed_set |-> closed_set \cup {cur.node}] }
        : i \in heappop(open_set) }

\* One iteration of the while loop of find_path on a non-empty frontier: pop a
\* least entry, then return (the end was popped), continue (the location is
\* closed) or close the location and expand it.  The value is the set of ways
\* the iteration can go, each with the frontier and closed set it leaves.
search_step(links, end, alpha, open_set, closed_set) ==
    UNION {
        LET cur  == open_set[i]
            rest == RemoveAt(open_set, i)
        IN  IF cur.node = end
              THEN { [kind |-> "return", node |-> cur.node,
                      result |-> <<FoundRoute(links, cur, t)>>,
                      open_set |-> rest, closed_set |-> closed_set] : t \in ElapsedMs }
            ELSE IF cur.node \in closed_set
              THEN { [kind |-> "continue", node |-> cur.node, result |-> <<>>,
                      open_set |-> rest, closed_set |-> closed_set] }
            ELSE { [kind |-> "expand", node |-> cur.node, result |-> <<>>,
                    open_set |-> rest \o Expand(links, end, alpha, cur,
                                                closed_set \cup {cur.node}),
                    closed_set |-> closed_set \cup {cur.node}] }
        : i \in heappop(open_set) }

\* The while loop of find_path.  The value is the set of results the loop can
\* end with: <<>> for None, <<route>> for a RouteResult.
RECURSIVE search_loop(_, _, _, _, _)
search_loop(links, end, alpha, open_set, closed_set) ==
    IF open_set = <<>> THEN {<<>>}
    ELSE UNION {
        IF st.kind = "return" THEN {st.result}
        ELSE search_loop(links, end, alpha, st.open_set, st.closed_set)
        : st \in search_step(links, end, alpha, open_set, closed_set) }

\* find_path with a frontier seeded by an empty path (the start left out).
find_path_start_left_out(G, start, end, alpha) ==
    IF start \notin G.nodes \/ end \notin G.nodes THEN {<<>>}
    ELSE search_loop(G.links, end, alpha,
                     << [f |-> 0, g |-> 0, node |-> start, path |-> <<>>] >>,
                     {})

\* AStarPathfinder.find_path(start, end, alpha) on graph G.
find_path(G, start, end, alpha) ==
    IF start \notin G.nodes \/ end \notin G.nodes THEN {<<>>}
    ELSE search_loop(G.links, end, alpha,
                     << [f |-> 0, g |-> 0, node |-> start, path |-> <<start>>] >>,
                     {})

(***************************************************************************)
(* RouteOptimizerService                                                   *)
(***************************************************************************)

\* settings.ROUTE_CACHE_TTL (seconds).
ROUTE_CACHE_TTL == 300

\* The methods class RouteOptimizerService defines.  _calculate_route_metrics
\* and _find_link are methods of AStarPathfinder only.
RouteOptimizerServiceMethods ==
    { "initialize", "optimize_routes", "get_traffic_data", "get_service_metrics",
      "is_ready", "cleanup", "_load_pune_nodes", "_load_pune_links",
      "_warmup_cache", "_find_fast_route", "_find_eco_route",
      "_find_rl_optimized_route", "_find_alternative_routes",
      "_generate_path_variation", "_calculate_total_time",
      "_find_link_between_nodes" }

\* The origin-destination pairs keyed in fast_paths and in eco_paths.
predefined_pairs ==
    { <<"A", "J">>, <<"A", "H">>, <<"A", "I">>, <<"D", "J">>, <<"B", "J">> }

\* The result of a call: raised names the exception ("" when it returned),
\* value is what it returned.
Returned(v) == [raised |-> "", value |-> v]
Raised(e)   == [raised |-> e, value |-> <<>>]

\* self._calculate_route_metrics(path) evaluated on the service object: the
\* attribute lookup fails, and nothing after it in the caller runs.
service_calculate_route_metrics ==
    IF "_calculate_route_metrics" \in RouteOptimizerServiceMethods
      THEN ""
      ELSE "AttributeError"

\* _find_fast_route: a predefined pair goes to the metrics call of line 434;
\* every other pair falls back to find_path with alpha = 0.1.
find_fast_route(G, start, end) ==
    IF <<start, end>> \in predefined_pairs
      THEN { Raised(service_calculate_route_metrics) }
      ELSE { Returned(r) : r \in find_path(G, start, end, 100) }

\* _find_eco_route: as above (line 470), falling back to alpha = 2.0.
find_eco_route(G, start, end) ==
    IF <<start, end>> \in predefined_pairs
      THEN { Raised(service_calculate_route_metrics) }
      ELSE { Returned(r) : r \in find_path(G, start, end, 2000) }

\* rl_paths of _find_rl_optimized_route.
rl_paths ==
    (<<"A", "J">> :> <<"A", "B", "E", "I", "J">>) @@
    (<<"A", "H">> :> <<"A", "B", "D", "F", "H">>) @@
    (<<"A", "I">> :> <<"A", "C", "D", "G", "H", "I">>) @@
    (<<"D", "J">> :> <<"D", "F", "H", "I", "J">>) @@
    (<<"B", "J">> :> <<"B", "D", "G", "H", "I", "J">>)

\* fallback_paths of _find_alternative_routes.
fallback_paths ==
    (<<"A", "J">> :> << <<"A", "C", "D", "E", "J">>,
                        <<"A", "B", "D", "G", "H", "I", "J">> >>) @@
    (<<"A", "H">> :> << <<"A", "B", "D", "G", "H">>,
                        <<"A", "C", "E", "I", "H">> >>)

InPath(n, path) == \E i \in 1..Len(path) : path[i] = n

\* The candidates of _generate_path_variation in loop order: each detour node
\* of ['E', 'F', 'G', 'D', 'C'] not on the path, inserted at len // 2.
PathVariations(original_path) ==
    LET mid_idx == Len(original_path) \div 2
        alternative_nodes == SelectSeq(<<"E", "F", "G", "D", "C">>,
                                       LAMBDA n : ~InPath(n, original_path))
    IN  [k \in 1..Len(alternative_nodes) |->
            SubSeq(original_path, 1, mid_idx) \o <<alternative_nodes[k]>>
            \o SubSeq(original_path, mid_idx + 1, Len(original_path))]

\* _generate_path_variation: the first candidate not in used_paths, as a
\* sequence of length 0 (None) or 1.
generate_path_variation(original_path, used_paths) ==
    LET unused == SelectSeq(PathVariations(original_path),
                            LAMBDA q : q \notin used_paths)
    IN  IF Len(original_path) >= 3 /\ unused # <<>> THEN <<unused[1]>> ELSE <<>>

\* _find_rl_optimized_route: None unless the pair is predefined; a predefined
\* pair with a path to score reaches the metrics call of line 514.
find_rl_optimized_route(G, start, end, alpha, used_paths) ==
    IF <<start, end>> \in DOMAIN rl_paths
      THEN LET path == IF rl_paths[<<start, end>>] \in used_paths
                         THEN generate_path_variation(rl_paths[<<start, end>>], used_paths)
                         ELSE <<rl_paths[<<start, end>>]>>
           IN  IF path # <<>> THEN { Raised(service_calculate_route_metrics) }
                              ELSE { Returned(<<>>) }
      ELSE { Returned(<<>>) }

\* _find_alternative_routes: the empty list unless the pair has a fallback
\* path not in used_paths, which reaches the metrics call of line 564.
find_alternative_routes(G, start, end, used_paths) ==
    IF /\ <<start, end>> \in DOMAIN fallback_paths
       /\ \E i \in 1..Len(fallback_paths[<<start, end>>]) :
              fallback_paths[<<start, end>>][i] \notin used_paths
      THEN { Raised(service_calculate_route_metrics) }
      ELSE { Returned(<<>>) }

\* routes[:3]
FirstThree(routes) == SubSeq(routes, 1, Min(3, Len(routes)))

\* A descending sort that puts the later of two equal scores first.
InsertByScoreAheadOfEqual(sorted, r) ==
    LET ahead == SelectSeq(sorted, LAMBDA x : x.green_points_score > r.green_points_score)
        after == SelectSeq(sorted, LAMBDA x : x.green_points_score <= r.green_points_score)
    IN  ahead \o <<r>> \o after

\* One step of the stable descending sort: r goes after every route whose
\* score is at least its own.
InsertByScore(sorted, r) ==
    LET ahead == SelectSeq(sorted, LAMBDA x : x.green_points_score >= r.green_points_score)
        after == SelectSeq(sorted, LAMBDA x : x.green_points_score < r.green_points_score)
    IN  ahead \o <<r>> \o after

RECURSIVE sort_from(_, _, _)
sort_from(routes, i, sorted) ==
    IF i > Len(routes) THEN sorted
    ELSE sort_from(routes, i + 1, InsertByScore(sorted, routes[i]))

\* routes.sort(key=green_points_score, reverse=True): stable, descending.
sort_by_green_points(routes) == sort_from(routes, 1, <<>>)

\* What a call that got through its strategies returns: the list, with the
\* locals `routes` (before truncation and sort) and `used_paths` as they stand
\* at line 243 kept beside it.
ReturnedRoutes(routes, used_paths) ==
    [raised |-> "", value |-> sort_by_green_points(FirstThree(routes)),
     accepted |-> routes, used_paths |-> used_paths]

\* Lines 240-249: alternatives when fewer than three routes, truncation, sort.
finish_routes(G, start, end, routes, used_paths) ==
    IF Len(routes) < 3
      THEN { IF alt.raised # "" THEN Raised(alt.raised)
             ELSE ReturnedRoutes(routes \o alt.value, used_paths)
             : alt \in find_alternative_routes(G, start, end, used_paths) }
      ELSE { ReturnedRoutes(routes, used_paths) }

\* Lines 233-238: the rl-optimized route is appended whenever one is returned
\* (its path is not added to used_paths).
add_rl_route(G, start, end, alpha, routes, used_paths) ==
    UNION { IF rl.raised # "" THEN { Raised(rl.raised) }
            ELSE IF rl.value # <<>>
              THEN finish_routes(G, start, end,
                       Append(routes,
                              [rl.value[1] EXCEPT
                                 !.route_type = "rl-optimized",
                                 !.green_points_score = @ + 10]),
                       used_paths)
            ELSE finish_routes(G, start, end, routes, used_paths)
            : rl \in find_rl_optimized_route(G, start, end, alpha, used_paths) }

\* The eco step without the used_paths test: every eco route is appended.
add_eco_route_unchecked(G, start, end, alpha, routes, used_paths) ==
    UNION { IF eco.raised # "" THEN { Raised(eco.raised) }
            ELSE IF eco.value # <<>>
              THEN add_rl_route(G, start, end, alpha,
                       Append(routes,
                              [eco.value[1] EXCEPT
                                 !.route_type = "eco",
                                 !.green_points_score = @ + 20]),
                       used_paths \cup {eco.value[1].path})
            ELSE add_rl_route(G, start, end, alpha, routes, used_paths)
            : eco \in find_eco_route(G, start, end) }

\* The eco step with the used_paths.add of line 231 left out.
add_eco_route_not_recorded(G, start, end, alpha, routes, used_paths) ==
    UNION { IF eco.raised # "" THEN { Raised(eco.raised) }
            ELSE IF eco.value # <<>> /\ eco.value[1].path \notin used_paths
              THEN add_rl_route(G, start, end, alpha,
                       Append(routes,
                              [eco.value[1] EXCEPT
                                 !.route_type = "eco",
                                 !.green_points_score = @ + 20]),
                       used_paths)
            ELSE add_rl_route(G, start, end, alpha, routes, used_paths)
            : eco \in find_eco_route(G, start, end) }

\* Lines 225-231: the eco route is kept when its path is not in used_paths.
add_eco_route(G, start, end, alpha, routes, used_paths) ==
    UNION { IF eco.raised # "" THEN { Raised(eco.raised) }
            ELSE IF eco.value # <<>> /\ eco.value[1].path \notin used_paths
              THEN add_rl_route(G, start, end, alpha,
                       Append(routes,
                              [eco.value[1] EXCEPT
                                 !.route_type = "eco",
                                 !.green_points_score = @ + 20]),
                       used_paths \cup {eco.value[1].path})
            ELSE add_rl_route(G, start, end, alpha, routes, used_paths)
            : eco \in find_eco_route(G, start, end) }

\* compute_routes without the `fast_route and` test of line 221: the path of
\* a None result is read.
compute_routes_unguarded(G, start, end, alpha) ==
    UNION { IF fast.raised # "" THEN { Raised(fast.raised) }
            ELSE IF fast.value = <<>> THEN { Raised("AttributeError") }
            ELSE add_eco_route(G, start, end, alpha,
                     << [fast.value[1] EXCEPT !.route_type = "fast"] >>,
                     {fast.value[1].path})
            : fast \in find_fast_route(G, start, end) }

\* Lines 214-249 of optimize_routes: the routes computed on a cache miss.
compute_routes(G, start, end, alpha) ==
    UNION { IF fast.raised # "" THEN { Raised(fast.raised) }
            ELSE IF fast.value # <<>> /\ fast.value[1].path \notin {}
              THEN add_eco_route(G, start, end, alpha,
                       << [fast.value[1] EXCEPT !.route_type = "fast"] >>,
                       {fast.value[1].path})
            ELSE add_eco_route(G, start, end, alpha, <<>>, {})
            : fast \in find_fast_route(G, start, end) }

(***************************************************************************)
(* The route cache (diskcache.Cache): key -> (value, expire_time).  get    *)
(* answers None for a missing key and for an entry whose expire_time is    *)
(* not after the current time.                                             *)
(***************************************************************************)

cache_get(c, key, t) ==
    IF key \in DOMAIN c /\ c[key].expire_time > t THEN <<c[key].value>> ELSE <<>>

\* A set that leaves the new entry alone in the cache, the others dropped.
cache_set_alone(c, key, value, t, expire) ==
    [k \in {key} |-> [value |-> value, expire_time |-> t + expire]]

cache_set(c, key, value, t, expire) ==
    [k \in DOMAIN c \cup {key} |->
        IF k = key THEN [value |-> value, expire_time |-> t + expire] ELSE c[k]]

\* round(alpha, 2), from thousandths to hundredths (inputs never end in 5).
round2(alpha) == (alpha + 5) \div 10

\* A cache key that carries alpha as given, not rounded.
cache_key_unrounded(start, end, alpha) == <<start, end, alpha>>

\* cache_key = f"{start_node}:{end_node}:{round(alpha, 2)}"; the ids hold no
\* colon, so the string is as good as the triple.
cache_key(start, end, alpha) == <<start, end, round2(alpha)>>

\* A replay that adds the label bonus to the cached score once more.
replay_cached_bonus_again(cached_result) ==
    [i \in 1..Len(cached_result) |->
        [cached_result[i] EXCEPT
           !.cache_hit = TRUE,
           !.processing_time_ms = 5,
           !.green_points_score =
               IF cached_result[i].route_type = "eco" THEN @ + 20
               ELSE IF cached_result[i].route_type = "rl-optimized" THEN @ + 10
               ELSE @]]

\* Lines 209-212: the cached dicts rebuilt as RouteResults.
replay_cached(cached_result) ==
    [i \in 1..Len(cached_result) |->
        [cached_result[i] EXCEPT !.cache_hit = TRUE, !.processing_time_ms = 5]]

\* Lines 252-264: cache_data, every route as a dict with cache_hit False.
cache_data(routes) ==
    [i \in 1..Len(routes) |-> [routes[i] EXCEPT !.cache_hit = FALSE]]

\* optimize_routes, whole: the set of ways one call can end from service
\* state (rdy, c, count) at time t.
optimize_routes(G, rdy, c, count, t, start, end, alpha) ==
    IF ~rdy
      THEN { [raised |-> "RuntimeError", routes |-> <<>>, from_cache |-> FALSE,
              cache |-> c, optimization_count |-> count] }
    ELSE LET key == cache_key(start, end, alpha)
             cached_result == cache_get(c, key, t)
         IN  IF cached_result # <<>> /\ cached_result[1] # <<>>
               THEN { [raised |-> "", routes |-> replay_cached(cached_result[1]),
                       from_cache |-> TRUE,
                       cache |-> c, optimization_count |-> count] }
             ELSE { IF res.raised # ""
                      THEN [raised |-> res.raised, routes |-> <<>>, from_cache |-> FALSE,
                            cache |-> c, optimization_count |-> count]
                      ELSE [raised |-> "", routes |-> res.value, from_cache |-> FALSE,
                            cache |-> cache_set(c, key, cache_data(res.value), t,
                                                ROUTE_CACHE_TTL),
                            optimization_count |-> count + 1]
                    : res \in compute_routes(G, start, end, alpha) }

\* common_routes of _warmup_cache.
common_routes == << <<"A", "J">>, <<"D", "J">>, <<"B", "I">> >>

\* _warmup_cache: optimize_routes for each common route at alpha = 1.0, any
\* exception swallowed.  The value is the set of (cache, count) it can leave.
RECURSIVE warmup_cache(_, _, _, _, _, _)
warmup_cache(G, rdy, c, count, t, i) ==
    IF i > Len(common_routes) THEN { [cache |-> c, optimization_count |-> count] }
    ELSE UNION { warmup_cache(G, rdy, out.cache, out.optimization_count, t, i + 1)
                 : out \in optimize_routes(G, rdy, c, count, t,
                                           common_routes[i][1], common_routes[i][2], 1000) }

(***************************************************************************)
(* The service as a state machine.  optimize_routes holds no await, so a   *)
(* call runs to its end without interleaving: one action per call.         *)
(***************************************************************************)

VARIABLES
    graph,               \* the name of the graph in self.nodes / self.links
    ready,               \* self.ready
    cache,               \* self.cache
    optimization_count,  \* self.optimization_count
    now,                 \* time.time(), seconds since construction
    calls,               \* the client calls made so far, with their outcomes
    pure,                \* the pure functions applied to one drawn input
    wallets,             \* GreenCreditsService._wallets
    credits_response,    \* the last earn_credits / redeem_credits call and its outcome
    experience_buffer,   \* CPUOptimizedRLModel.experience_buffer
    experiences_added,   \* the number of update_experience calls made
    chat_ready,          \* SustainableOpenAIService.ready
    request_timestamps,  \* SustainableOpenAIService.request_timestamps
    chat_calls           \* the complete_chat calls made so far, with their outcomes

\* The state of the services beside the route optimizer.
other_services ==
    <<wallets, credits_response, experience_buffer, experiences_added,
      chat_ready, request_timestamps, chat_calls>>

vars == <<graph, ready, cache, optimization_count, now, calls, pure, other_services>>

\* GreenCreditsService: the class-level dictionary of wallets is empty.
WalletsInit ==
    /\ wallets = <<>>
    /\ credits_response = [op |-> "none", count |-> 0]

\* CPUOptimizedRLModel.__init__: an empty experience buffer.
RLModelInit ==
    /\ experience_buffer = <<>>
    /\ experiences_added = 0

\* SustainableOpenAIService.__init__: not ready, no request admitted yet.
ChatInit ==
    /\ chat_ready = FALSE
    /\ request_timestamps = <<>>
    /\ chat_calls = <<>>

OtherServicesInit == WalletsInit /\ RLModelInit /\ ChatInit

\* Client calls per run, and the instant the clock is never advanced past.
MaxCalls == 2
MaxTime == 300

\* The requests clients make: known pairs with and without predefined paths,
\* equal endpoints, and ids a graph does not know.
RequestPairs ==
    { <<"A", "D">>, <<"C", "A">>, <<"A", "J">>, <<"A", "A">>,
      <<"A", UnknownLocation>> }

\* Two of the alphas share a cache key: round(1.004, 2) = round(1.0, 2).
AlphaInputs == {1000, 1004}

\* The inputs the pure functions are applied to.
AllLocations == load_pune_nodes \cup {UnknownLocation}

SearchAlphas == {100, 500, 1000, 2000}

NoPure == [stage |-> "unused", start |-> "A", end |-> "A", alpha |-> 0,
           found |-> <<>>, outcome |-> Returned(<<>>)]

ServiceInit ==
    /\ OtherServicesInit
    /\ ready = FALSE
    /\ cache = <<>>
    /\ optimization_count = 0
    /\ now = 0
    /\ calls = <<>>

Init == graph = PuneGraph.name /\ ServiceInit /\ pure = NoPure

\* initialize(): build the pathfinder, warm the cache up, then set ready.
Initialize ==
    /\ ~ready
    /\ \E w \in warmup_cache(GraphNamed(graph), ready, cache, optimization_count, now, 1) :
         /\ cache' = w.cache
         /\ optimization_count' = w.optimization_count
    /\ ready' = TRUE
    /\ UNCHANGED <<other_services, graph, now, calls, pure>>

\* One client call of optimize_routes(start, end, alpha).
OptimizeRoutes(start, end, alpha) ==
    /\ Len(calls) < MaxCalls
    /\ \E out \in optimize_routes(GraphNamed(graph), ready, cache, optimization_count, now,
                                  start, end, alpha) :
         /\ cache' = out.cache
         /\ optimization_count' = out.optimization_count
         /\ calls' = Append(calls,
                [start |-> start, end |-> end, alpha |-> alpha, at |-> now,
                 was_ready |-> ready,
                 raised |-> out.raised, routes |-> out.routes,
                 from_cache |-> out.from_cache])
    /\ UNCHANGED <<other_services, graph, ready, now, pure>>

\* Time passes between calls.
Tick ==
    /\ now + 150 <= MaxTime
    /\ now' = now + 150
    /\ UNCHANGED <<other_services, graph, ready, cache, optimization_count, calls, pure>>

Next ==
    \/ Initialize
    \/ \E p \in RequestPairs, alpha \in AlphaInputs : OptimizeRoutes(p[1], p[2], alpha)
    \/ Tick

Spec == Init /\ [][Next]_vars

(***************************************************************************)
(* The pure functions on drawn inputs: find_path, and the route list       *)
(* optimize_routes computes on a cache miss.                               *)
(***************************************************************************)

PureInit ==
    /\ graph \in GraphNames
    /\ ServiceInit
    /\ \E s \in AllLocations, e \in AllLocations, a \in SearchAlphas :
         pure = [stage |-> "input", start |-> s, end |-> e, alpha |-> a,
                 found |-> <<>>, outcome |-> Returned(<<>>)]

ApplyFindPath ==
    /\ pure.stage = "input"
    /\ \E r \in find_path(GraphNamed(graph), pure.start, pure.end, pure.alpha) :
         pure' = [pure EXCEPT !.stage = "find_path", !.found = r]
    /\ UNCHANGED <<other_services, graph, ready, cache, optimization_count, now, calls>>

ApplyComputeRoutes ==
    /\ pure.stage = "input"
    /\ \E res \in compute_routes(GraphNamed(graph), pure.start, pure.end, pure.alpha) :
         pure' = [pure EXCEPT !.stage = "routes", !.outcome = res]
    /\ UNCHANGED <<other_services, graph, ready, cache, optimization_count, now, calls>>

\* _generate_path_variation on the path the rl table holds for the drawn
\* pair, with that path already used (the call of line 510).
ApplyGeneratePathVariation ==
    /\ pure.stage = "input"
    /\ graph = PuneGraph.name
    /\ <<pure.start, pure.end>> \in DOMAIN rl_paths
    /\ pure' = [pure EXCEPT
                  !.stage = "variation",
                  !.outcome = Returned(generate_path_variation(
                                  rl_paths[<<pure.start, pure.end>>],
                                  {rl_paths[<<pure.start, pure.end>>]}))]
    /\ UNCHANGED <<other_services, graph, ready, cache, optimization_count, now, calls>>

PureNext == ApplyFindPath \/ ApplyComputeRoutes \/ ApplyGeneratePathVariation

SpecPure == PureInit /\ [][PureNext]_vars

(***************************************************************************)
(* Vocabulary of the properties                                            *)
(***************************************************************************)

IsLink(G, a, b) ==
    \E i \in 1..Len(G.links) : G.links[i].from_node = a /\ G.links[i].to_node = b

NoRepeat(path) ==
    \A i, j \in 1..Len(path) : i # j => path[i] # path[j]

\* A path from start to end: simple, and every hop a link of the graph.
ValidPath(G, path, start, end) ==
    /\ path # <<>>
    /\ path[1] = start
    /\ path[Len(path)] = end
    /\ NoRepeat(path)
    /\ \A i \in 1..(Len(path) - 1) : IsLink(G, path[i], path[i + 1])

PathsOf(routes) == [i \in 1..Len(routes) |-> routes[i].path]

PairwiseDistinct(routes) ==
    \A i, j \in 1..Len(routes) : i # j => routes[i].path # routes[j].path

\* The route list of the drawn input, once compute_routes has returned it.
PureReturned == pure.stage = "routes" /\ pure.outcome.raised = ""

PureRoutes == pure.outcome.value

KnownDistinct ==
    /\ pure.start \in GraphNamed(graph).nodes
    /\ pure.end \in GraphNamed(graph).nodes
    /\ pure.start # pure.end

\* C1: the list one optimize_routes call computes never holds two routes with
\* the same location sequence (a repeated path is dropped, not returned).
C1_DistinctPaths ==
    PureReturned => PairwiseDistinct(PureRoutes)

\* C1 witness: the eco search found the path the fast search had found, and
\* the call returned the single route.
C1_Witness ==
    /\ PureReturned
    /\ KnownDistinct
    /\ Len(PureRoutes) = 1
    /\ \E eco \in find_eco_route(GraphNamed(graph), pure.start, pure.end) :
          eco.value # <<>> /\ eco.value[1].path = PureRoutes[1].path

\* C2: every path optimize_routes returns for two distinct known locations
\* runs from start to end, repeats no location, and follows links of the graph.
C2_ValidPaths ==
    (PureReturned /\ KnownDistinct) =>
        \A i \in 1..Len(PureRoutes) :
            ValidPath(GraphNamed(graph), PureRoutes[i].path, pure.start, pure.end)

\* C2 witness: a returned list of two routes over several hops.
C2_Witness ==
    /\ PureReturned
    /\ KnownDistinct
    /\ Len(PureRoutes) = 2
    /\ \A i \in 1..2 : Len(PureRoutes[i].path) >= 3

\* The least of a non-empty set of integers.
Least(S) == CHOOSE x \in S : \A y \in S : x <= y

\* combined_cost of one hop a -> b in thousandths: time * traffic_factor +
\* alpha * (time * 100 * emissions_multiplier), over the cheapest link a -> b.
HopCost(G, a, b, alpha) ==
    Least({ 1000 * TimeCost(G.links[i]) + alpha * calculate_emissions_cost(G.links[i]) :
            i \in { k \in 1..Len(G.links) :
                      G.links[k].from_node = a /\ G.links[k].to_node = b } })

RECURSIVE CombinedCostFrom(_, _, _, _)
CombinedCostFrom(G, path, alpha, i) ==
    IF i >= Len(path) THEN 0
    ELSE HopCost(G, path[i], path[i + 1], alpha) + CombinedCostFrom(G, path, alpha, i + 1)

CombinedCost(G, path, alpha) == CombinedCostFrom(G, path, alpha, 1)

\* Every simple path of G that extends `path` to `end`.
RECURSIVE SimplePathsFrom(_, _, _)
SimplePathsFrom(G, path, end) ==
    IF path[Len(path)] = end THEN {path}
    ELSE UNION { SimplePathsFrom(G, Append(path, n), end) :
                 n \in { m \in G.nodes : IsLink(G, path[Len(path)], m) /\ ~InPath(m, path) } }

SimplePaths(G, start, end) == SimplePathsFrom(G, <<start>>, end)

PureFound == pure.stage = "find_path" /\ pure.found # <<>>

\* C3: the path find_path returns has the least combined cost among the
\* simple paths from start to end.
C3_MinimalCombinedCost ==
    PureFound =>
        \A q \in SimplePaths(GraphNamed(graph), pure.start, pure.end) :
            CombinedCost(GraphNamed(graph), pure.found[1].path, pure.alpha)
              <= CombinedCost(GraphNamed(graph), q, pure.alpha)

\* C4: every returned route has 0 <= green_points_score <= 150 after the label
\* bonuses, and non-negative total_time, total_distance and total_emissions.
C4_Bounds ==
    PureReturned =>
        \A i \in 1..Len(PureRoutes) :
            /\ 0 <= PureRoutes[i].green_points_score
            /\ PureRoutes[i].green_points_score <= 150
            /\ PureRoutes[i].total_time >= 0
            /\ PureRoutes[i].total_distance >= 0
            /\ PureRoutes[i].total_emissions >= 0

\* C4 witness: a returned list with an eco route (bonus 20 added) beside a
\* fast one.
C4_Witness ==
    /\ PureReturned
    /\ \E i, j \in 1..Len(PureRoutes) :
          /\ PureRoutes[i].route_type = "eco"
          /\ PureRoutes[i].green_points_score > 100
          /\ PureRoutes[j].route_type = "fast"

\* Call i computed its routes and stored them in the cache.
Stored(i) == calls[i].raised = "" /\ ~calls[i].from_cache

SameKey(i, j) ==
    cache_key(calls[i].start, calls[i].end, calls[i].alpha)
      = cache_key(calls[j].start, calls[j].end, calls[j].alpha)

\* C5: once a call has stored its result, every later call with the same key
\* made before the TTL expires is answered from the cache, cache_hit = true on
\* each route, whatever the stored result was (an empty list included).
C5_LaterCallsAnsweredFromCache ==
    \A i, j \in 1..Len(calls) :
        ( /\ i < j
          /\ Stored(i)
          /\ SameKey(i, j)
          /\ calls[j].at < calls[i].at + ROUTE_CACHE_TTL )
        => /\ calls[j].from_cache
           /\ \A k \in 1..Len(calls[j].routes) : calls[j].routes[k].cache_hit

\* A route without its bookkeeping fields (cache_hit, processing_time_ms).
RouteCore(r) ==
    [path |-> r.path, total_time |-> r.total_time,
     total_distance |-> r.total_distance, total_emissions |-> r.total_emissions,
     green_points_score |-> r.green_points_score, route_type |-> r.route_type]

CoresOf(routes) == [i \in 1..Len(routes) |-> RouteCore(routes[i])]

\* The call whose stored result call j can be replaying: the last one before
\* j that stored under j's key.
LastStoreBefore(j) ==
    { i \in 1..(j - 1) :
        /\ Stored(i)
        /\ SameKey(i, j)
        /\ \A k \in (i + 1)..(j - 1) : ~(Stored(k) /\ SameKey(k, j)) }

\* C6: a replayed result has the routes of the call that computed it, in the
\* same order, equal in path, totals, score and route_type; only cache_hit and
\* processing_time_ms differ.
C6_ReplayEqualsComputed ==
    \A j \in 1..Len(calls) :
        calls[j].from_cache =>
            /\ LastStoreBefore(j) # {}
            /\ \A i \in LastStoreBefore(j) :
                  /\ CoresOf(calls[j].routes) = CoresOf(calls[i].routes)
                  /\ \A k \in 1..Len(calls[j].routes) :
                        /\ calls[j].routes[k].cache_hit
                        /\ ~calls[i].routes[k].cache_hit
                        /\ calls[j].routes[k].processing_time_ms = 5

\* C6 witness: a replay of a two-route result that holds an eco route.
C6_Witness ==
    \E j \in 1..Len(calls) :
        /\ calls[j].from_cache
        /\ Len(calls[j].routes) = 2
        /\ \E k \in 1..2 : calls[j].routes[k].route_type = "eco"

\* C7: two computations for the same start, end and alpha on the same graph
\* return the same sequence of paths, and two runs of find_path the same path:
\* whichever least entry a pop takes, the paths are those of the run recorded.
C7_Deterministic ==
    /\ PureReturned =>
          \A r \in compute_routes(GraphNamed(graph), pure.start, pure.end, pure.alpha) :
              r.raised = "" /\ PathsOf(r.value) = PathsOf(PureRoutes)
    /\ pure.stage = "find_path" =>
          \A r \in find_path(GraphNamed(graph), pure.start, pure.end, pure.alpha) :
              PathsOf(r) = PathsOf(pure.found)

\* f_score of the frontier entry that carries `path`, in thousandths: the
\* time of the whole path plus alpha times the emissions of its last link.
EntryF(G, path, alpha) ==
    LET n == Len(path)
        last == find_link(G.links, path[n - 1], path[n])[1]
    IN  1000 * (CombinedCost(G, path, 0) \div 1000)
        + alpha * calculate_emissions_cost(last)

\* C7 witness: find_path returned a path although another path to the end had
\* an entry of the same f_score.
C7_Witness ==
    /\ PureFound
    /\ \E q \in SimplePaths(GraphNamed(graph), pure.start, pure.end) :
          /\ q # pure.found[1].path
          /\ Len(q) >= 2
          /\ Len(pure.found[1].path) >= 2
          /\ EntryF(GraphNamed(graph), q, pure.alpha)
               = EntryF(GraphNamed(graph), pure.found[1].path, pure.alpha)

\* find_path(A, D, alpha) has returned on the example graph.
ExampleSearch(alpha) ==
    /\ graph = ExampleGraph.name
    /\ pure.stage = "find_path"
    /\ pure.start = "A"
    /\ pure.end = "D"
    /\ pure.alpha = alpha

\* C8 as stated: on the example graph find_path(A, D, alpha = 0.1) returns
\* A -> B -> D.
C8_ReturnsABD ==
    ExampleSearch(100) => PathsOf(pure.found) = << <<"A", "B", "D">> >>

\* C8 amended: on the example graph find_path(A, D, alpha = 0.1) returns
\* A -> C -> D.
C8_ReturnsACD ==
    ExampleSearch(100) => PathsOf(pure.found) = << <<"A", "C", "D">> >>

\* C8 witness: the search of the example at alpha = 0.1 has returned.
C8_Witness == ExampleSearch(100) /\ pure.found # <<>>

\* C9: on the example graph find_path(A, D, alpha = 2.0) returns A -> C -> D.
C9_ReturnsACD ==
    ExampleSearch(2000) => PathsOf(pure.found) = << <<"A", "C", "D">> >>

\* C9 witness: the search of the example at alpha = 2.0 has returned.
C9_Witness == ExampleSearch(2000) /\ pure.found # <<>>

\* C10: on the example graph optimize_routes(A, D, alpha = 1.0) returns at
\* least two routes, A -> B -> D and A -> C -> D among their paths.
C10_TwoRoutes ==
    ( /\ graph = ExampleGraph.name
      /\ pure.stage = "routes"
      /\ pure.start = "A"
      /\ pure.end = "D"
      /\ pure.alpha = 1000 )
    => /\ pure.outcome.raised = ""
       /\ Len(PureRoutes) >= 2
       /\ \E i \in 1..Len(PureRoutes) : PureRoutes[i].path = <<"A", "B", "D">>
       /\ \E i \in 1..Len(PureRoutes) : PureRoutes[i].path = <<"A", "C", "D">>

\* Call i was made on a ready service for two distinct known locations.
ReadyKnownDistinct(i) ==
    /\ calls[i].was_ready
    /\ calls[i].start \in GraphNamed(graph).nodes
    /\ calls[i].end \in GraphNamed(graph).nodes
    /\ calls[i].start # calls[i].end

C12_NeverRaises ==
    \A i \in 1..Len(calls) :
        ReadyKnownDistinct(i) => calls[i].raised = ""

\* Both locations are known and no sequence of links leads from start to end.
NoPathConnects ==
    /\ pure.start \in GraphNamed(graph).nodes
    /\ pure.end \in GraphNamed(graph).nodes
    /\ SimplePaths(GraphNamed(graph), pure.start, pure.end) = {}

\* C13: when no path connects start to end, find_path returns None (the
\* frontier ran empty) and optimize_routes returns an empty list, not raising.
C13_NoPathIsAbsorbed ==
    /\ (pure.stage = "find_path" /\ NoPathConnects) => pure.found = <<>>
    /\ (pure.stage = "routes" /\ NoPathConnects) =>
          (pure.outcome.raised = "" /\ pure.outcome.value = <<>>)

\* C13 witness: the routes of a request from D back to A were computed on a
\* graph whose links all lead away from A.
C13_Witness ==
    /\ pure.stage = "routes"
    /\ NoPathConnects
    /\ pure.start = "D"
    /\ pure.end = "A"
    /\ pure.outcome.raised = ""

\* Call i named a location the graph does not know, or start = end.
InvalidRequest(i) ==
    \/ calls[i].start \notin GraphNamed(graph).nodes
    \/ calls[i].end \notin GraphNamed(graph).nodes
    \/ calls[i].start = calls[i].end

\* C14: a request with an unknown start or end, or with start = end, gets no
\* route from optimize_routes and leaves no cache entry under its key.
C14_InvalidRequestRejected ==
    \A i \in 1..Len(calls) :
        (calls[i].was_ready /\ InvalidRequest(i)) =>
            /\ calls[i].routes = <<>>
            /\ cache_key(calls[i].start, calls[i].end, calls[i].alpha) \notin DOMAIN cache

(***************************************************************************)
(* Construction of a pathfinder on drawn nodes and links.                  *)
(***************************************************************************)

\* AStarPathfinder(nodes, links): self.nodes = nodes and self.graph the dict
\* _build_graph fills, one key per from_node met in links.  No statement of
\* __init__ or _build_graph looks a link's endpoints up in nodes.
AStarPathfinder(nodes, links) ==
    { Returned([nodes |-> nodes,
                graph |-> [n \in { links[i].from_node : i \in 1..Len(links) } |->
                              build_graph(links, n)]]) }

\* Longest link list a pathfinder is constructed with here.
MaxLinks == 2

\* Location ids for construction: the known ones are drawn from A and B, so
\* Z is never known.
BuildLocations == {"A", "B"}

BuildLinks ==
    { RouteLink(f, t, 1, 1, FALSE, 100) :
        f \in BuildLocations \cup {UnknownLocation},
        t \in BuildLocations \cup {UnknownLocation} }

BuildLinkLists == UNION { [1..n -> BuildLinks] : n \in 0..MaxLinks }

BuildInit ==
    /\ graph = PuneGraph.name
    /\ ServiceInit
    /\ \E nodes \in (SUBSET BuildLocations) \ {{}}, links \in BuildLinkLists :
         pure = [stage |-> "build_input", nodes |-> nodes, links |-> links,
                 outcome |-> Returned(<<>>)]

Construct ==
    /\ pure.stage = "build_input"
    /\ \E r \in AStarPathfinder(pure.nodes, pure.links) :
         pure' = [pure EXCEPT !.stage = "built", !.outcome = r]
    /\ UNCHANGED <<other_services, graph, ready, cache, optimization_count, now, calls>>

BuildNext == Construct

SpecBuild == BuildInit /\ [][BuildNext]_vars

\* C15: constructing a pathfinder fails when a link names a from_node or a
\* to_node outside the location set, so the adjacency structure of a
\* pathfinder that exists mentions known locations only.
C15_UnknownLocationFailsConstruction ==
    pure.stage = "built" =>
        /\ (\E i \in 1..Len(pure.links) :
               \/ pure.links[i].from_node \notin pure.nodes
               \/ pure.links[i].to_node \notin pure.nodes)
           => pure.outcome.raised # ""
        /\ pure.outcome.raised = "" =>
              \A n \in DOMAIN pure.outcome.value.graph :
                  /\ n \in pure.nodes
                  /\ \A k \in 1..Len(pure.outcome.value.graph[n]) :
                        pure.outcome.value.graph[n][k].to_node \in pure.nodes

\* C16: for fixed start and end, a larger alpha never gives a path of smaller
\* total_emissions: emissions(find_path at alpha1) <= emissions(find_path at
\* alpha2) whenever alpha1 < alpha2.
C16_EmissionsNeverDecreaseWithAlpha ==
    PureFound =>
        \A a \in SearchAlphas :
            pure.alpha < a =>
                \A r \in find_path(GraphNamed(graph), pure.start, pure.end, a) :
                    /\ r # <<>>
                    /\ pure.found[1].total_emissions <= r[1].total_emissions

\* The opposite direction: a larger alpha never gives a path of larger
\* total_emissions.
EmissionsNeverIncreaseWithAlpha ==
    PureFound =>
        \A a \in SearchAlphas :
            pure.alpha < a =>
                \A r \in find_path(GraphNamed(graph), pure.start, pure.end, a) :
                    /\ r # <<>>
                    /\ r[1].total_emissions <= pure.found[1].total_emissions

\* The position of a label in the order the routes are computed.
ComputedRank(route_type) ==
    CASE route_type = "fast" -> 1
      [] route_type = "eco" -> 2
      [] route_type = "rl-optimized" -> 3
      [] route_type = "alternative-1" -> 4
      [] OTHER -> 5

\* C17: the returned list is in descending order of green_points_score, and
\* routes of equal score stay in the order they were computed (fast, eco,
\* rl-optimized, alternatives).
C17_SortedDescendingStable ==
    PureReturned =>
        \A i, j \in 1..Len(PureRoutes) :
            i < j =>
                \/ PureRoutes[i].green_points_score > PureRoutes[j].green_points_score
                \/ /\ PureRoutes[i].green_points_score = PureRoutes[j].green_points_score
                   /\ ComputedRank(PureRoutes[i].route_type)
                        < ComputedRank(PureRoutes[j].route_type)

\* C17 witness: a returned list whose fast and eco routes have equal scores.
C17_Witness ==
    /\ PureReturned
    /\ Len(PureRoutes) = 2
    /\ PureRoutes[1].green_points_score = PureRoutes[2].green_points_score
    /\ PureRoutes[1].route_type = "fast"
    /\ PureRoutes[2].route_type = "eco"

\* C17 second witness: the sort moved the eco route ahead of the fast one.
C17_WitnessReordered ==
    /\ PureReturned
    /\ Len(PureRoutes) = 2
    /\ PureRoutes[1].route_type = "eco"
    /\ PureRoutes[1].green_points_score > PureRoutes[2].green_points_score

\* get_service_metrics: the status and the performance counters it reads
\* (avg_optimization_time_ms and cache_stats, wall-clock and diskcache
\* statistics, are left out).
get_service_metrics(G, rdy, count) ==
    [service_status |-> IF rdy THEN "ready" ELSE "initializing",
     performance |-> [total_optimizations |-> count,
                      nodes_count |-> Cardinality(G.nodes),
                      links_count |-> Len(G.links)]]

\* C18: total_optimizations of get_service_metrics equals the number of
\* optimize_routes calls made on the ready service, cache hits included
\* (counted here over the calls that returned, so that a call which raised
\* does not decide the matter).
C18_CountsEveryCall ==
    get_service_metrics(GraphNamed(graph), ready, optimization_count)
        .performance.total_optimizations
      = Cardinality({ i \in 1..Len(calls) : calls[i].was_ready /\ calls[i].raised = "" })

\* The bonus optimize_routes adds for a label.
LabelBonus(route_type) ==
    CASE route_type = "eco" -> 20
      [] route_type = "rl-optimized" -> 10
      [] OTHER -> 0

\* clamp(0, 150, 100 - min(50, total_emissions/100) - min(30, total_time/10)
\*              + label bonus), exact, in hundredths of a point.
ClampedScoreHundredths(r) ==
    Max(0, Min(150 * 100,
               100 * 100 - Min(50 * 100, r.total_emissions)
                         - Min(30 * 100, 10 * r.total_time)
                         + 100 * LabelBonus(r.route_type)))

ScoreEqualsTruncatedFormula ==
    PureReturned =>
        \A i \in 1..Len(PureRoutes) :
            PureRoutes[i].green_points_score
              = ClampedScoreHundredths(PureRoutes[i]) \div 100

\* Calls i and j name the same start and end, and their alphas are equal
\* after round(alpha, 2).
SameRoundedRequest(i, j) ==
    /\ calls[i].start = calls[j].start
    /\ calls[i].end = calls[j].end
    /\ round2(calls[i].alpha) = round2(calls[j].alpha)

\* C20: two requests between the same distinct known locations whose alphas
\* round to the same number at two decimals have the same cache key, and the
\* second, made while the entry the first one stored is alive, is answered
\* from that entry.
C20_RoundedAlphaSharesEntry ==
    \A i, j \in 1..Len(calls) :
        ( /\ i < j
          /\ ReadyKnownDistinct(i)
          /\ SameRoundedRequest(i, j)
          /\ Stored(i)
          /\ calls[j].at < calls[i].at + ROUTE_CACHE_TTL )
        => /\ SameKey(i, j)
           /\ calls[j].from_cache
           /\ CoresOf(calls[j].routes) = CoresOf(calls[i].routes)

\* C20 witness: a request at alpha = 1.0 stored its routes and a request at
\* alpha = 1.004 for the same pair was answered from the cache.
C20_Witness ==
    \E i, j \in 1..Len(calls) :
        /\ i < j
        /\ ReadyKnownDistinct(i)
        /\ SameRoundedRequest(i, j)
        /\ Stored(i)
        /\ calls[i].alpha = 1000
        /\ calls[j].alpha = 1004
        /\ calls[j].from_cache
        /\ calls[j].routes # <<>>

\* The (time, distance, emissions) totals of every way of walking path from
\* position i on, taking for each hop one of the links that join the pair.
RECURSIVE TraversalTotalsFrom(_, _, _)
TraversalTotalsFrom(G, path, i) ==
    IF i >= Len(path) THEN { [time |-> 0, distance |-> 0, emissions |-> 0] }
    ELSE { [time |-> TimeCost(G.links[k]) + rest.time,
            distance |-> G.links[k].distance + rest.distance,
            emissions |-> calculate_emissions_cost(G.links[k]) + rest.emissions] :
           k \in { n \in 1..Len(G.links) :
                     G.links[n].from_node = path[i] /\ G.links[n].to_node = path[i + 1] },
           rest \in TraversalTotalsFrom(G, path, i + 1) }

TraversalTotals(G, path) == TraversalTotalsFrom(G, path, 1)

\* C21: total_time, total_distance and total_emissions of a find_path result
\* are the sums over one and the same sequence of links along the path (the
\* links the search traversed), also where two links join the same ordered
\* pair of locations.
C21_TotalsOfTraversedLinks ==
    PureFound =>
        [time |-> pure.found[1].total_time,
         distance |-> pure.found[1].total_distance,
         emissions |-> pure.found[1].total_emissions]
          \in TraversalTotals(GraphNamed(graph), pure.found[1].path)

\* C22: a path _generate_path_variation returns is connected in the graph,
\* every consecutive pair of its locations joined by a link; without a
\* connected variation it returns None.
C22_VariationConnected ==
    (pure.stage = "variation" /\ pure.outcome.value # <<>>) =>
        \A i \in 1..(Len(pure.outcome.value[1]) - 1) :
            IsLink(GraphNamed(graph), pure.outcome.value[1][i], pure.outcome.value[1][i + 1])

WarmupRequest(i, k) ==
    /\ calls[k].start = common_routes[i][1]
    /\ calls[k].end = common_routes[i][2]
    /\ calls[k].alpha = 1000

\* C24: once initialize() has completed, the cache holds an entry for each
\* warm-up request (A->J, D->J, B->I at alpha 1.0), and the first client call
\* for one of them, made before the entry expires, is answered from the cache.
C24_WarmupEntriesPresent ==
    ready =>
        /\ \A i \in 1..Len(common_routes) :
              cache_key(common_routes[i][1], common_routes[i][2], 1000) \in DOMAIN cache
        /\ \A i \in 1..Len(common_routes), k \in 1..Len(calls) :
              ( /\ WarmupRequest(i, k)
                /\ calls[k].was_ready
                /\ calls[k].at < ROUTE_CACHE_TTL )
              => calls[k].from_cache

(***************************************************************************)
(* find_path iteration by iteration: the frontier, the closed set and the  *)
(* locations expanded so far, in order.                                    *)
(***************************************************************************)

SearchInit ==
    /\ graph \in GraphNames
    /\ ServiceInit
    /\ \E s \in AllLocations, e \in AllLocations, a \in SearchAlphas :
         pure = [stage |-> "search_input", start |-> s, end |-> e, alpha |-> a,
                 open_set |-> <<>>, closed_set |-> {}, expanded |-> <<>>,
                 found |-> <<>>]

\* Lines 76-83: None for an unknown start or end, else the frontier is seeded.
BeginSearch ==
    /\ pure.stage = "search_input"
    /\ IF pure.start \notin GraphNamed(graph).nodes \/ pure.end \notin GraphNamed(graph).nodes
         THEN pure' = [pure EXCEPT !.stage = "done"]
         ELSE pure' = [pure EXCEPT
                         !.stage = "searching",
                         !.open_set = << [f |-> 0, g |-> 0, node |-> pure.start,
                                          path |-> <<pure.start>>] >>]
    /\ UNCHANGED <<other_services, graph, ready, cache, optimization_count, now, calls>>

\* Lines 85-124: one iteration of `while open_set`, or the return of None
\* once the frontier is empty.
SearchIterate ==
    /\ pure.stage = "searching"
    /\ IF pure.open_set = <<>>
         THEN pure' = [pure EXCEPT !.stage = "done"]
         ELSE \E st \in search_step(GraphNamed(graph).links, pure.end, pure.alpha,
                                    pure.open_set, pure.closed_set) :
                pure' = [pure EXCEPT
                           !.stage = IF st.kind = "return" THEN "done" ELSE "searching",
                           !.found = st.result,
                           !.open_set = st.open_set,
                           !.closed_set = st.closed_set,
                           !.expanded = IF st.kind = "expand" THEN Append(@, st.node)
                                                              ELSE @]
    /\ UNCHANGED <<other_services, graph, ready, cache, optimization_count, now, calls>>

SearchNext == BeginSearch \/ SearchIterate

\* The loop is sequential code: an iteration that can run does run.
SpecSearch == SearchInit /\ [][SearchNext]_vars /\ WF_vars(SearchNext)

\* The safety half of C25: no location is expanded twice, the closed set is
\* the set of expanded locations, and a call that ended returned what
\* find_path returns, None or a path without a repeated location.
SearchStateSound ==
    /\ NoRepeat(pure.expanded)
    /\ pure.closed_set = { pure.expanded[i] : i \in 1..Len(pure.expanded) }
    /\ pure.stage = "done" =>
          /\ pure.found \in find_path(GraphNamed(graph), pure.start, pure.end, pure.alpha)
          /\ pure.found # <<>> => NoRepeat(pure.found[1].path)

\* C25: find_path terminates for every start, end and alpha on every graph;
\* on the way each location is closed and expanded at most once, and the call
\* ends with a path that repeats no location or with None.
C25_SearchTerminates ==
    /\ [] SearchStateSound
    /\ <> (pure.stage = "done")

\* C25 witness: a search that ended with None after it had expanded every
\* location it could reach, several of them.
C25_Witness ==
    /\ pure.stage = "done"
    /\ pure.found = <<>>
    /\ Len(pure.expanded) >= 3

\* C25 second witness: a search that ended with a path after it had popped
\* and skipped nothing but expanded five locations or more.
C25_WitnessFound ==
    /\ pure.stage = "done"
    /\ pure.found # <<>>
    /\ Len(pure.expanded) >= 5

\* What each request returns when it is the only call made on the ready
\* service, with an empty cache: the tuples (start, end, alpha, routes).
AloneOutcomes ==
    UNION { { <<p[1], p[2], a, CoresOf(r.value)>> :
                r \in { x \in compute_routes(PuneGraph, p[1], p[2], a) : x.raised = "" } }
            : p \in RequestPairs, a \in AlphaInputs }

\* The route lists call i can return when run alone.
AloneResults(i) ==
    { o[4] : o \in { x \in AloneOutcomes :
                       /\ x[1] = calls[i].start
                       /\ x[2] = calls[i].end
                       /\ x[3] = calls[i].alpha } }

\* C26: optimize_routes holds no await, so concurrently issued calls run one
\* after the other in some order.  In every order each call returns the
\* paths, totals and scores it returns when run alone, the cache entry of its
\* key holds that result, and optimization_count counts every computation.
C26_CallsIndependentOfOrder ==
    /\ \A i \in 1..Len(calls) :
          (calls[i].was_ready /\ calls[i].raised = "") =>
              /\ CoresOf(calls[i].routes) \in AloneResults(i)
              /\ cache_key(calls[i].start, calls[i].end, calls[i].alpha) \in DOMAIN cache
              /\ CoresOf(cache[cache_key(calls[i].start, calls[i].end, calls[i].alpha)].value)
                   = CoresOf(calls[i].routes)
    /\ \A i \in 1..Len(calls) :
          (calls[i].was_ready /\ calls[i].raised # "") => AloneResults(i) = {}
    /\ optimization_count = Cardinality({ i \in 1..Len(calls) : Stored(i) })

\* C26 witness: two calls with different keys, made at the same instant, both
\* computed and stored their routes.
C26_Witness ==
    /\ Len(calls) >= 2
    /\ Stored(1)
    /\ Stored(2)
    /\ ~SameKey(1, 2)
    /\ calls[1].at = calls[2].at
    /\ calls[1].routes # <<>>
    /\ calls[2].routes # <<>>

\* C26 second witness: two calls with identical arguments at the same
\* instant, the second answered from the entry of the first.
C26_WitnessIdentical ==
    /\ Len(calls) >= 2
    /\ Stored(1)
    /\ calls[2].from_cache
    /\ calls[1].start = calls[2].start
    /\ calls[1].end = calls[2].end
    /\ calls[1].alpha = calls[2].alpha
    /\ calls[1].at = calls[2].at

\* C27: when a result holds a fast and an eco route, the eco route has no
\* more total_emissions than the fast one and the fast route no more
\* total_time than the eco one.
C27_EcoCleanerFastQuicker ==
    PureReturned =>
        \A i, j \in 1..Len(PureRoutes) :
            (PureRoutes[i].route_type = "fast" /\ PureRoutes[j].route_type = "eco") =>
                /\ PureRoutes[j].total_emissions <= PureRoutes[i].total_emissions
                /\ PureRoutes[i].total_time <= PureRoutes[j].total_time

\* ---------------------------------------------------------------------
\* GreenCreditsService (google-maps-backend): wallets of green credits.
\*
\* The wallet fields are Python floats.  A float is modelled as a binary
\* floating-point number with FloatBits significant bits instead of 53,
\* counted in half credits: every value drawn below is a whole number of
\* half credits, so round(credits, 2) leaves it as it is, and the sums
\* and differences are rounded to the nearest representable number, ties
\* to the even significand, as IEEE 754 does.

FloatBits == 4

MaxCreditCalls == 4

RECURSIVE Pow2(_)
Pow2(n) == IF n = 0 THEN 1 ELSE 2 * Pow2(n - 1)

\* The distance between neighbouring floats around the number x >= 0.
RECURSIVE FloatSpacing(_, _)
FloatSpacing(x, s) == IF x < s * Pow2(FloatBits) THEN s ELSE FloatSpacing(x, 2 * s)

\* The float nearest to the exact number x >= 0, ties to even.
FloatOf(x) ==
    LET s == FloatSpacing(x, 1)
        q == x \div s
        r == x % s
    IN  IF 2 * r < s THEN q * s
        ELSE IF 2 * r > s THEN (q + 1) * s
        ELSE IF q % 2 = 0 THEN q * s
        ELSE (q + 1) * s

\* Python's a + b and a - b on floats (a >= b for the difference).
float_add(a, b) == FloatOf(a + b)
float_sub(a, b) == FloatOf(a - b)

\* CREDITS_PER_KM = 0.5 credits: one half credit per kilometre;
\* CREDITS_PER_KG_CO2 = 5.0 credits: five half credits per half kilogram.
CREDITS_PER_KM == 1
CREDITS_PER_KG_CO2 == 5

Users == {"user_001"}

\* route_distance_km in kilometres (gt=0), co2_saved_kg in half kilograms
\* (None is <<>>, ge=0), redeemed amounts in half credits.
DistanceInputs == {3, 12}
Co2Inputs == {<<>>, <<0>>, <<1>>}
AmountInputs == {0, 1, 6, 100}

\* UserWallet(user_id=...): every amount 0.0, no eco route yet.
UserWallet(user_id) ==
    [ user_id |-> user_id,
      total_credits |-> 0,
      credits_earned_all_time |-> 0,
      credits_redeemed |-> 0,
      eco_routes_count |-> 0,
      total_co2_saved_kg |-> 0 ]

\* get_wallet: the wallets after the call, the user's wallet created if absent.
get_wallet(W, user_id) ==
    IF user_id \in DOMAIN W THEN W
    ELSE [u \in DOMAIN W \cup {user_id} |-> IF u = user_id THEN UserWallet(user_id) ELSE W[u]]

\* calculate_credits: distance * CREDITS_PER_KM, plus co2 * CREDITS_PER_KG_CO2
\* when co2_saved_kg is truthy (neither None nor 0), rounded to two decimals.
calculate_credits(route_distance_km, co2_saved_kg) ==
    LET base == FloatOf(route_distance_km * CREDITS_PER_KM)
    IN  IF co2_saved_kg # <<>> /\ co2_saved_kg[1] # 0
        THEN float_add(base, FloatOf(co2_saved_kg[1] * CREDITS_PER_KG_CO2))
        ELSE base

\* The three amounts of a wallet the balance is made of.
Balance(w) ==
    [ total_credits |-> w.total_credits,
      credits_earned_all_time |-> w.credits_earned_all_time,
      credits_redeemed |-> w.credits_redeemed ]

\* earn_credits(request).
EarnCredits ==
    /\ credits_response.count < MaxCreditCalls
    /\ \E user_id \in Users, route_distance_km \in DistanceInputs, co2_saved_kg \in Co2Inputs :
        LET W == get_wallet(wallets, user_id)
            wallet == W[user_id]
            credits_earned == calculate_credits(route_distance_km, co2_saved_kg)
            updated ==
                [wallet EXCEPT
                    !.total_credits = float_add(@, credits_earned),
                    !.credits_earned_all_time = float_add(@, credits_earned),
                    !.eco_routes_count = @ + 1,
                    !.total_co2_saved_kg =
                        IF co2_saved_kg # <<>> /\ co2_saved_kg[1] # 0
                        THEN float_add(@, co2_saved_kg[1]) ELSE @]
        IN  /\ wallets' = [W EXCEPT ![user_id] = updated]
            /\ credits_response' =
                [ op |-> "earn", count |-> credits_response.count + 1, user_id |-> user_id, amount |-> credits_earned,
                  success |-> TRUE, before |-> Balance(wallet), after |-> Balance(updated),
                  new_balance |-> updated.total_credits ]
    /\ UNCHANGED <<graph, ready, cache, optimization_count, now, calls, pure,
                   experience_buffer, experiences_added,
                   chat_ready, request_timestamps, chat_calls>>

\* redeem_credits(user_id, amount): refused when the balance is less than
\* the amount, else taken from total_credits and added to credits_redeemed.
RedeemCredits ==
    /\ credits_response.count < MaxCreditCalls
    /\ \E user_id \in Users, amount \in AmountInputs :
        LET W == get_wallet(wallets, user_id)
            wallet == W[user_id]
            updated ==
                [wallet EXCEPT
                    !.total_credits = float_sub(@, amount),
                    !.credits_redeemed = float_add(@, amount)]
        IN  IF wallet.total_credits < amount
            THEN /\ wallets' = W
                 /\ credits_response' =
                     [ op |-> "redeem", count |-> credits_response.count + 1,
                       user_id |-> user_id, amount |-> amount,
                       success |-> FALSE, before |-> Balance(wallet), after |-> Balance(wallet),
                       new_balance |-> <<>> ]
            ELSE /\ wallets' = [W EXCEPT ![user_id] = updated]
                 /\ credits_response' =
                     [ op |-> "redeem", count |-> credits_response.count + 1,
                       user_id |-> user_id, amount |-> amount,
                       success |-> TRUE, before |-> Balance(wallet), after |-> Balance(updated),
                       new_balance |-> updated.total_credits ]
    /\ UNCHANGED <<graph, ready, cache, optimization_count, now, calls, pure,
                   experience_buffer, experiences_added,
                   chat_ready, request_timestamps, chat_calls>>

CreditsInit ==
    /\ graph = PuneGraph.name
    /\ ServiceInit
    /\ pure = [stage |-> "none"]

CreditsNext == EarnCredits \/ RedeemCredits

SpecCredits == CreditsInit /\ [][CreditsNext]_vars

WalletNeverOverdrawn ==
    /\ \A u \in DOMAIN wallets : wallets[u].total_credits >= 0
    /\ (credits_response.op = "redeem"
            /\ credits_response.amount > credits_response.before.total_credits) =>
        /\ ~credits_response.success
        /\ credits_response.after = credits_response.before

\* ---------------------------------------------------------------------
\* CPUOptimizedRLModel (rl_agent.py): the experience replay buffer.

buffer_size == 100

MaxUpdates == 103

\* alpha in thousandths; the performance reported with an update, each
\* measure in thousandths or absent (<<>>, read as the default 0.5).
UpdateAlphas == {500}
PerformanceInputs == {[time_efficiency |-> <<>>, emission_reduction |-> <<>>, user_satisfaction |-> <<>>]}

\* actual_performance.get(key, 0.5).
PerformanceOr(p) == IF p = <<>> THEN 500 ELSE p[1]

\* update_experience with the newest entry dropped from a full buffer
\* (pop() in place of pop(0)).
update_experience_newest_evicted(buffer, experience) ==
    LET appended == Append(buffer, experience)
    IN  IF Len(appended) > buffer_size
        THEN SubSeq(appended, 1, Len(appended) - 1)
        ELSE appended

\* update_experience: append the experience, and once the buffer holds
\* more than buffer_size entries pop(0).
update_experience(buffer, experience) ==
    LET appended == Append(buffer, experience)
    IN  IF Len(appended) > buffer_size
        THEN Tail(appended)
        ELSE appended

\* RLAgentService.update_model: the reward is the mean of the three
\* performance measures and the experience goes into the buffer.  The
\* entry carries the number of the call that added it (arrival) in the
\* place of its timestamp.
UpdateModel ==
    /\ experiences_added < MaxUpdates
    /\ \E alpha \in UpdateAlphas, actual_performance \in PerformanceInputs :
        LET reward ==
                (PerformanceOr(actual_performance.time_efficiency)
                 + PerformanceOr(actual_performance.emission_reduction)
                 + PerformanceOr(actual_performance.user_satisfaction)) \div 3
            experience ==
                [alpha |-> alpha, reward |-> reward, arrival |-> experiences_added + 1]
        IN  /\ experience_buffer' = update_experience(experience_buffer, experience)
            /\ experiences_added' = experiences_added + 1
    /\ UNCHANGED <<graph, ready, cache, optimization_count, now, calls, pure,
                   wallets, credits_response,
                   chat_ready, request_timestamps, chat_calls>>

LearnInit ==
    /\ graph = PuneGraph.name
    /\ ServiceInit
    /\ pure = [stage |-> "none"]

LearnNext == UpdateModel

SpecLearn == LearnInit /\ [][LearnNext]_vars

\* C29: the experience buffer holds at most 100 entries, and they are
\* the most recently added ones in arrival order (so the entry evicted
\* from a full buffer is the oldest).
C29_BufferHoldsLatestHundred ==
    /\ Len(experience_buffer) <= 100
    /\ Len(experience_buffer) =
           (IF experiences_added < 100 THEN experiences_added ELSE 100)
    /\ \A i \in 1..Len(experience_buffer) :
           experience_buffer[i].arrival =
               experiences_added - Len(experience_buffer) + i

\* C29 witness: more than 100 experiences were added, the buffer is full
\* and its first entry is the 100th most recent one.
C29_Witness ==
    /\ experiences_added > 100
    /\ Len(experience_buffer) = 100
    /\ experience_buffer[1].arrival = experiences_added - 99
    /\ experience_buffer[100].arrival = experiences_added

\* ---------------------------------------------------------------------
\* SustainableOpenAIService (openai_service.py): the rate limiter of
\* complete_chat, in the default configuration (no OPENAI_API_KEY: the
\* service runs in mock mode, client is None and the cache stays empty).
\* time.time() is the clock `now`, in seconds.

max_requests_per_minute == 10

MaxChatCalls == 12

MaxChatTime == 90

\* _check_rate_limit with a refused request recorded as well (the
\* timestamp appended before the limit is tested).
check_rate_limit_refused_recorded(timestamps, current_time) ==
    LET recent == SelectSeq(timestamps, LAMBDA ts : current_time - ts < 60)
    IN  IF Len(recent) >= max_requests_per_minute
        THEN [admitted |-> FALSE, request_timestamps |-> Append(recent, current_time)]
        ELSE [admitted |-> TRUE, request_timestamps |-> Append(recent, current_time)]

\* _check_rate_limit: drop the timestamps 60 seconds old or older, refuse
\* when max_requests_per_minute remain, else record current_time.
check_rate_limit(timestamps, current_time) ==
    LET recent == SelectSeq(timestamps, LAMBDA ts : current_time - ts < 60)
    IN  IF Len(recent) >= max_requests_per_minute
        THEN [admitted |-> FALSE, request_timestamps |-> recent]
        ELSE [admitted |-> TRUE, request_timestamps |-> Append(recent, current_time)]

\* initialize without an API key: mock mode, ready at once.
ChatInitialize ==
    /\ ~chat_ready
    /\ chat_ready' = TRUE
    /\ UNCHANGED <<graph, ready, cache, optimization_count, now, calls, pure,
                   wallets, credits_response, experience_buffer, experiences_added,
                   request_timestamps, chat_calls>>

\* complete_chat(request): the message names the mock response returned.
CompleteChat ==
    /\ Len(chat_calls) < MaxChatCalls
    /\ IF ~chat_ready
       THEN /\ chat_calls' = Append(chat_calls,
                [at |-> now, was_ready |-> FALSE, admitted |-> FALSE,
                 message |-> "Service not ready", model_used |-> "mock"])
            /\ UNCHANGED request_timestamps
       ELSE LET limit == check_rate_limit(request_timestamps, now)
            IN  /\ request_timestamps' = limit.request_timestamps
                /\ chat_calls' = Append(chat_calls,
                    [at |-> now, was_ready |-> TRUE, admitted |-> limit.admitted,
                     message |-> IF limit.admitted
                                 THEN "No API key configured"
                                 ELSE "Rate limit exceeded - practicing sustainable AI",
                     model_used |-> "mock"])
    /\ UNCHANGED <<graph, ready, cache, optimization_count, now, calls, pure,
                   wallets, credits_response, experience_buffer, experiences_added,
                   chat_ready>>

\* Half a minute passes.
ChatTick ==
    /\ now + 30 <= MaxChatTime
    /\ now' = now + 30
    /\ UNCHANGED <<other_services, graph, ready, cache, optimization_count, calls, pure>>

ChatSpecInit ==
    /\ graph = PuneGraph.name
    /\ ServiceInit
    /\ pure = [stage |-> "none"]

ChatNext == ChatInitialize \/ CompleteChat \/ ChatTick

SpecChat == ChatSpecInit /\ [][ChatNext]_vars

\* The calls before call j that the limiter admitted less than 60
\* seconds before it.
AdmittedWithinMinuteBefore(j) ==
    {i \in 1..(j - 1) : chat_calls[i].admitted /\ chat_calls[j].at - chat_calls[i].at < 60}

\* The calls that reached the limiter and were refused by it.
Refused(j) == chat_calls[j].was_ready /\ ~chat_calls[j].admitted

\* The last call that reached the limiter (0 if none did).
LastLimited ==
    LET S == {j \in 1..Len(chat_calls) : chat_calls[j].was_ready}
    IN  IF S = {} THEN 0 ELSE CHOOSE j \in S : \A k \in S : k <= j

\* The admitted calls whose timestamps the limiter still holds: those
\* made less than 60 seconds before the last call that reached it.
HeldAdmissions ==
    IF LastLimited = 0 THEN <<>>
    ELSE LET kept == SelectSeq(
                 [j \in 1..Len(chat_calls) |-> <<j, chat_calls[j]>>],
                 LAMBDA e : e[2].admitted
                            /\ chat_calls[LastLimited].at - e[2].at < 60)
         IN  [k \in 1..Len(kept) |-> kept[k][2].at]

\* C30: at most 10 requests are admitted inside any 60-second window; a
\* refused request gets the rate-limit mock response, is not recorded in
\* request_timestamps, and does not delay later requests: a request is
\* admitted exactly when fewer than 10 were admitted in the 60 seconds
\* before it.
C30_TenPerMinute ==
    /\ \A j \in 1..Len(chat_calls) :
        /\ chat_calls[j].admitted =>
               Cardinality(AdmittedWithinMinuteBefore(j)) + 1 <= 10
        /\ Refused(j) =>
               /\ chat_calls[j].message = "Rate limit exceeded - practicing sustainable AI"
               /\ chat_calls[j].model_used = "mock"
        /\ chat_calls[j].was_ready =>
               (chat_calls[j].admitted <=> Cardinality(AdmittedWithinMinuteBefore(j)) < 10)
    /\ request_timestamps = HeldAdmissions

\* C30 witness: ten requests admitted, one refused in the same minute,
\* and a later request admitted once the minute of the first ten is over.
C30_Witness ==
    \E j, k \in 1..Len(chat_calls) :
        /\ j < k
        /\ Refused(j)
        /\ Cardinality(AdmittedWithinMinuteBefore(j)) = 10
        /\ chat_calls[k].admitted
        /\ chat_calls[k].at - chat_calls[j].at < 60

====
